---- MODULE Spec2Model ----
(***************************************************************************)
(* Mnemonic Shamir's secret sharing: the frame codec, the mnemonic codec,  *)
(* the wordlist loader, the share-block parser and the recovery wrapper    *)
(* of mnemonic_shamirs_secret_sharing.py and wordlist.py.                  *)
(*                                                                         *)
(* Python integers are unbounded.  An integer n >= 0 is represented here   *)
(* by the set of the positions of its 1 bits (5 is {0, 2}, 0 is {}), so    *)
(* that frames of 48 bits and more, and the 32-bit CRC, keep their real    *)
(* widths.  A function that can raise returns Ok(value) or Err(kind).      *)
(***************************************************************************)
EXTENDS Integers, Sequences, FiniteSets

Ok(v) == [ok |-> TRUE, val |-> v]
Err(kind) == [ok |-> FALSE, err |-> kind]

(***************************************************************************)
(* Python's int operations on the bit-set representation.                  *)
(***************************************************************************)
SetMax(S) == CHOOSE m \in S : \A k \in S : k <= m

\* n << b
Shl(n, b) == {i + b : i \in n}

\* n >> b
Shr(n, b) == {i - b : i \in {j \in n : j >= b}}

\* n & ((1 << b) - 1)
LowBits(n, b) == {i \in n : i < b}

\* a ^ b
Xor(a, b) == (a \ b) \cup (b \ a)

\* a + b: sum without carries, plus the carries shifted left, until none is left
RECURSIVE Add(_, _)
Add(a, b) == IF b = {} THEN a ELSE Add(Xor(a, b), Shl(a \cap b, 1))

\* (1 << b) - 1 < d
ExceedsBits(d, b) == \E i \in d : i >= b

\* n.bit_length()
BitLength(n) == IF n = {} THEN 0 ELSE SetMax(n) + 1

\* int(math.log2(n)) for n >= 1: the position of the highest 1 bit
Log2Floor(n) == SetMax(n)

\* The bit set of a machine-sized integer k >= 0, and back.
BitsOf(k) == {i \in 0..30 : (k \div (2 ^ i)) % 2 = 1}

RECURSIVE IntOf(_)
IntOf(n) == IF n = {} THEN 0 ELSE LET m == SetMax(n) IN 2 ^ m + IntOf(n \ {m})

(***************************************************************************)
(* zlib.crc32: the reflected CRC-32 of ISO 3309, register preset to all    *)
(* ones, result complemented.                                              *)
(***************************************************************************)
AllOnes32 == 0..31

\* 0xEDB88320
CrcPoly == {31, 30, 29, 27, 26, 24, 23, 21, 20, 19, 15, 9, 8, 5}

CrcShift(crc) == IF 0 \in crc THEN Xor(Shr(crc, 1), CrcPoly) ELSE Shr(crc, 1)

CrcByte(crc, byte) ==
    CrcShift(CrcShift(CrcShift(CrcShift(
    CrcShift(CrcShift(CrcShift(CrcShift(Xor(crc, byte)))))))))

\* byte k (0 is the first, most significant) of n.to_bytes(len, "big")
ByteAt(n, len, k) == LowBits(Shr(n, 8 * (len - 1 - k)), 8)

\* The register after bytes k .. len-1, given the register crc before byte k.
\* (The test on c makes TLC compute each byte's register before it goes on.)
RECURSIVE CrcFrom(_, _, _, _)
CrcFrom(n, len, k, crc) ==
    IF k = len THEN crc
    ELSE LET c == CrcByte(crc, ByteAt(n, len, k)) IN
         IF c = {} THEN CrcFrom(n, len, k + 1, {}) ELSE CrcFrom(n, len, k + 1, c)

crc32(n, len) == Xor(CrcFrom(n, len, 0, AllOnes32), AllOnes32)

(***************************************************************************)
(* The frame codec.                                                        *)
(***************************************************************************)
\* math.log2(0) raises ValueError; to_bytes raises OverflowError when n does
\* not fit in int(math.log2(n)) bytes.
checksum(n) ==
    IF n = {} THEN Err("MathDomainError")
    ELSE LET len == Log2Floor(n) IN
         IF BitLength(n) > 8 * len THEN Err("OverflowError")
         ELSE Ok(crc32(n, len))

shift_left(n, b, d) ==
    IF ExceedsBits(d, b) THEN Err("BitOverflow") ELSE Ok(Add(Shl(n, b), d))

pad_number(n, a, b) ==
    LET p1 == shift_left(n, 8, a) IN
    IF ~p1.ok THEN p1 ELSE
    LET p2 == shift_left(p1.val, 8, b) IN
    IF ~p2.ok THEN p2 ELSE
    LET crc == checksum(p2.val) IN
    IF ~crc.ok THEN crc ELSE
    shift_left(p2.val, 32, crc.val)

shift_right(n, b) == <<Shr(n, b), LowBits(n, b)>>

\* Two faulty variants of unpad_number, which the frame properties below must
\* tell from it: one returns the two fields in the other order, one does not
\* compare the checksums.
unpad_number_swapped(n) ==
    LET s32 == shift_right(n, 32)
        expect_crc == checksum(s32[1]) IN
    IF ~expect_crc.ok THEN expect_crc ELSE
    LET sb == shift_right(s32[1], 8)
        sa == shift_right(sb[1], 8) IN
    IF s32[2] # expect_crc.val THEN Err("ChecksumMismatch")
    ELSE Ok(<<sa[1], sb[2], sa[2]>>)

unpad_number_unchecked(n) ==
    LET s32 == shift_right(n, 32)
        expect_crc == checksum(s32[1]) IN
    IF ~expect_crc.ok THEN expect_crc ELSE
    LET sb == shift_right(s32[1], 8)
        sa == shift_right(sb[1], 8) IN
    Ok(<<sa[1], sa[2], sb[2]>>)

unpad_number(n) ==
    LET s32 == shift_right(n, 32)
        expect_crc == checksum(s32[1]) IN
    IF ~expect_crc.ok THEN expect_crc ELSE
    LET sb == shift_right(s32[1], 8)
        sa == shift_right(sb[1], 8) IN
    IF s32[2] # expect_crc.val THEN Err("ChecksumMismatch")
    ELSE Ok(<<sa[1], sa[2], sb[2]>>)

(***************************************************************************)
(* Text.  A string is a sequence of tokens <<kind, id>>: <<"w", i>> is a   *)
(* lowercase run of word characters, <<"W", i>> the same run in capitals,  *)
(* <<"#", i>> a run that starts with a non-word character, <<" ", 0>> a    *)
(* blank and <<" ", 1>> a line end.  Tokens that follow each other without *)
(* white space between them form one word of the string.                   *)
(***************************************************************************)
Space == <<" ", 0>>
Newline == <<" ", 1>>

IsSpace(t) == t[1] = " "

\* str.lower()
Lower(s) == [k \in 1..Len(s) |-> IF s[k][1] = "W" THEN <<"w", s[k][2]>> ELSE s[k]]

RECURSIVE LStrip(_)
LStrip(s) == IF s # <<>> /\ IsSpace(Head(s)) THEN LStrip(Tail(s)) ELSE s

RECURSIVE RStrip(_)
RStrip(s) ==
    IF s # <<>> /\ IsSpace(s[Len(s)]) THEN RStrip(SubSeq(s, 1, Len(s) - 1)) ELSE s

\* str.strip()
Strip(s) == RStrip(LStrip(s))

\* The first word of s, s not starting with white space.
RECURSIVE FirstWord(_)
FirstWord(s) ==
    IF s = <<>> \/ IsSpace(Head(s)) THEN <<>> ELSE <<Head(s)>> \o FirstWord(Tail(s))

\* str.split(): the words of s, in order
RECURSIVE Split(_)
Split(s) ==
    LET t == LStrip(s) IN
    IF t = <<>> THEN <<>>
    ELSE LET word == FirstWord(t) IN
         <<word>> \o Split(SubSeq(t, Len(word) + 1, Len(t)))

\* " ".join(words)
RECURSIVE Join(_)
Join(words) ==
    IF words = <<>> THEN <<>>
    ELSE IF Len(words) = 1 THEN words[1]
    ELSE words[1] \o <<Space>> \o Join(Tail(words))

(***************************************************************************)
(* wordlist.py                                                             *)
(***************************************************************************)
RADIX_BITS == 10
RADIX == 2 ^ RADIX_BITS

\* word.startswith("#")
StartsWithHash(line) == line # <<>> /\ line[1][1] = "#"

\* [word.strip() for word in f if not word.startswith("#")]
StrippedWords(file) ==
    LET kept == SelectSeq(file, LAMBDA line : ~StartsWithHash(line)) IN
    [k \in 1..Len(kept) |-> Strip(kept[k])]

\* {word: i for i, word in enumerate(wordlist)}: a later index replaces an
\* earlier one of the same word.  Python's wordlist[i] is wordlist[i + 1] here.
IndexMap(wordlist) ==
    [w \in {wordlist[k] : k \in DOMAIN wordlist} |->
        SetMax({k \in DOMAIN wordlist : wordlist[k] = w}) - 1]

load_wordlist(file) ==
    LET wordlist == StrippedWords(file) IN
    IF Len(wordlist) # RADIX THEN Err("ImportError")
    ELSE Ok([wordlist |-> wordlist, word_index_map |-> IndexMap(wordlist)])

\* wordlist.txt as shipped: a comment line, then RADIX distinct lowercase words.
WordlistTxt ==
    <<<<<<"#", 0>>, Newline>>>> \o [k \in 1..RADIX |-> <<<<"w", k - 1>>, Newline>>]

WORDLIST == load_wordlist(WordlistTxt).val.wordlist
WORD_INDEX_MAP == load_wordlist(WordlistTxt).val.word_index_map

words_from_indices(indices) == [k \in 1..Len(indices) |-> WORDLIST[indices[k] + 1]]

\* A word that is not a key of the map raises KeyError, turned into MnemonicError.
mnemonic_to_indices(mnemonic) ==
    LET words == Split(mnemonic) IN
    IF \A k \in 1..Len(words) : Lower(words[k]) \in DOMAIN WORD_INDEX_MAP
    THEN Ok([k \in 1..Len(words) |-> WORD_INDEX_MAP[Lower(words[k])]])
    ELSE Err("MnemonicError")

(***************************************************************************)
(* The mnemonic codec.                                                     *)
(***************************************************************************)
\* while n: indices.append(n % RADIX); n >>= RADIX_BITS
\* (RADIX is 2 ** RADIX_BITS: n % RADIX is the low RADIX_BITS bits of n)
RECURSIVE Indices(_)
Indices(n) ==
    IF n = {} THEN <<>>
    ELSE <<IntOf(LowBits(n, RADIX_BITS))>> \o Indices(Shr(n, RADIX_BITS))

number_to_mnemonic(n) == Join(words_from_indices(Indices(n)))

\* for idx in reversed(indices): if share: share <<= RADIX_BITS; share += idx
\* (k counts down from Len(indices); share is the value so far)
RECURSIVE Accumulate(_, _, _)
Accumulate(indices, k, share) ==
    IF k = 0 THEN share
    ELSE Accumulate(indices, k - 1,
             Add(IF share # {} THEN Shl(share, RADIX_BITS) ELSE share,
                 BitsOf(indices[k])))

\* A faulty variant of mnemonic_to_number, which the codec property below must
\* tell from it: it takes the indices in the order of the words.
RECURSIVE AccumulateForward(_, _, _)
AccumulateForward(indices, k, share) ==
    IF k > Len(indices) THEN share
    ELSE AccumulateForward(indices, k + 1,
             Add(IF share # {} THEN Shl(share, RADIX_BITS) ELSE share,
                 BitsOf(indices[k])))

mnemonic_to_number_forward(words) ==
    LET indices == mnemonic_to_indices(words) IN
    IF ~indices.ok THEN indices
    ELSE Ok(AccumulateForward(indices.val, 1, {}))

mnemonic_to_number(words) ==
    LET indices == mnemonic_to_indices(words) IN
    IF ~indices.ok THEN indices
    ELSE Ok(Accumulate(indices.val, Len(indices.val), {}))

(***************************************************************************)
(* The share-block parser.                                                 *)
(***************************************************************************)
\* re.match(r"\s*\w+", line): after white space, a word character comes first
MatchesWord(line) ==
    LET t == LStrip(line) IN t # <<>> /\ t[1][1] \in {"w", "W"}

\* A faulty variant of ReadLine, which the comment-line property below must
\* tell from it: a comment line ends the share as an empty line does.
ReadLine_comment_ends(acc, rawline) ==
    LET line == Strip(rawline) IN
    IF line # <<>> /\ MatchesWord(line)
    THEN [acc EXCEPT !.words = acc.words \o Split(line)]
    ELSE IF acc.words # <<>>
         THEN [shares |-> Append(acc.shares, Join(acc.words)), words |-> <<>>]
    ELSE acc

\* One turn of the loop over f.readlines(): acc holds shares and words.
ReadLine(acc, rawline) ==
    LET line == Strip(rawline) IN
    IF line # <<>> /\ ~MatchesWord(line) THEN acc
    ELSE IF line # <<>> THEN [acc EXCEPT !.words = acc.words \o Split(line)]
    ELSE IF acc.words # <<>>
         THEN [shares |-> Append(acc.shares, Join(acc.words)), words |-> <<>>]
    ELSE acc

RECURSIVE ReadLines(_, _, _)
ReadLines(lines, k, acc) ==
    IF k > Len(lines) THEN acc ELSE ReadLines(lines, k + 1, ReadLine(acc, lines[k]))

\* A faulty variant of read_shared_secrets_from_file, which the grouping
\* property below must tell from it: the words left at the end are dropped.
read_shared_secrets_no_flush(f) ==
    ReadLines(f, 1, [shares |-> <<>>, words |-> <<>>]).shares

read_shared_secrets_from_file(f) ==
    LET acc == ReadLines(f, 1, [shares |-> <<>>, words |-> <<>>]) IN
    IF acc.words # <<>> THEN Append(acc.shares, Join(acc.words)) ELSE acc.shares

(***************************************************************************)
(* The sss module (make_random_shares, recover_secret and the two primes)  *)
(* is imported by the program and is not among its source files; it is     *)
(* modelled from sections 4.4 to 4.6 of the specification.  The program's  *)
(* primes are Mersenne primes of 127 and 521 bits; TLC computes with       *)
(* machine integers, so the model takes the Mersenne primes of 3 and 5     *)
(* bits.  A frame of the short prime then has at most 51 bits and one of   *)
(* the long prime at most 53, where the program's have at most 175 and     *)
(* 569, and the bound of recover_mnemonic_secret on log2 of a frame, 256 in *)
(* the program, is LONG_SHARE_LOG2 here: above every frame of the short    *)
(* prime, below the largest frames of the long prime.                      *)
(***************************************************************************)
PRIME_12TH_MERSENNE == 2 ^ 3 - 1
PRIME_13TH_MERSENNE == 2 ^ 5 - 1

LONG_SHARE_LOG2 == 52

\* <<g, u, v>> with g = gcd(a, b) = u * a + v * b
RECURSIVE ExtendedGcd(_, _)
ExtendedGcd(a, b) ==
    IF b = 0 THEN <<a, 1, 0>>
    ELSE LET r == ExtendedGcd(b, a % b) IN <<r[1], r[3], r[2] - (a \div b) * r[3]>>

ModInverse(a, prime) == ExtendedGcd(a % prime, prime)[2] % prime

\* f(x) mod prime by Horner's rule; poly[1] is the secret, k counts down
RECURSIVE EvalAt(_, _, _, _, _)
EvalAt(poly, x, prime, k, accum) ==
    IF k = 0 THEN accum
    ELSE EvalAt(poly, x, prime, k - 1, (accum * x + poly[k]) % prime)

\* rnd holds what the random source returns: the secret, then the coefficients
make_random_shares(minimum, shares, prime, rnd) ==
    IF minimum > 255 \/ shares > 255 THEN Err("TooManyShares")
    ELSE IF minimum < 2 THEN Err("ThresholdTooSmall")
    ELSE IF shares < minimum THEN Err("NotEnoughShares")
    ELSE Ok([secret |-> rnd[1],
             points |-> [i \in 1..shares |-> <<i, EvalAt(rnd, i, prime, minimum, 0)>>]])

RECURSIVE ProductMod(_, _, _)
ProductMod(vals, k, prime) ==
    IF k = 0 THEN 1 ELSE (ProductMod(vals, k - 1, prime) * (vals[k] % prime)) % prime

RECURSIVE SumMod(_, _, _)
SumMod(vals, k, prime) ==
    IF k = 0 THEN 0 ELSE (SumMod(vals, k - 1, prime) + vals[k]) % prime

\* The points but the i-th.
Others(points, i) == SubSeq(points, 1, i - 1) \o SubSeq(points, i + 1, Len(points))

\* y_i * num / den of section 4.6 for the i-th point
LagrangeTerm(points, i, prime) ==
    LET os == Others(points, i)
        num == ProductMod([j \in 1..Len(os) |-> 0 - os[j][1]], Len(os), prime)
        den == ProductMod([j \in 1..Len(os) |-> points[i][1] - os[j][1]], Len(os), prime)
    IN ((points[i][2] % prime) * ((num * ModInverse(den, prime)) % prime)) % prime

recover_secret(points, prime) ==
    IF \E i, j \in 1..Len(points) : i # j /\ points[i][1] = points[j][1]
    THEN Err("DuplicateShare")
    ELSE IF Len(points) < 2 THEN Err("TooFewPoints")
    ELSE Ok(SumMod([i \in 1..Len(points) |-> LagrangeTerm(points, i, prime)],
                   Len(points), prime))

(***************************************************************************)
(* The split and the recovery wrapper.                                     *)
(***************************************************************************)
\* len(bin(n)[2:]): bin(0) is "0b0"
bits_in_number(n) == IF n = {} THEN 1 ELSE BitLength(n)

make_random_mnemonic_shares(minimum_shares, nof_shares, prime, rnd) ==
    IF minimum_shares > 255 \/ nof_shares > 255 THEN Err("TooManyShares")
    ELSE LET made == make_random_shares(minimum_shares, nof_shares, prime, rnd) IN
    IF ~made.ok THEN made
    ELSE LET padded == [k \in 1..nof_shares |->
                           pad_number(BitsOf(made.val.points[k][2]),
                                      BitsOf(minimum_shares),
                                      BitsOf(made.val.points[k][1]))] IN
    IF \E k \in 1..nof_shares : ~padded[k].ok THEN Err("BitOverflow")
    ELSE Ok([mnemonic_secret |-> number_to_mnemonic(BitsOf(made.val.secret)),
             secret_bits |-> bits_in_number(BitsOf(made.val.secret)),
             mnemonic_shares |-> [k \in 1..nof_shares |-> number_to_mnemonic(padded[k].val)]])

\* math.log2(share) > LONG_SHARE_LOG2, share >= 1
Log2Exceeds(share, bound) ==
    SetMax(share) > bound \/ (SetMax(share) = bound /\ share # {bound})

Max(a, b) == IF a >= b THEN a ELSE b

\* The rest of the try block, share being what mnemonic_to_number returned and
\* unp what unpad_number returned: the exception raised, or the prime the
\* string leaves and its value, threshold and index.
Unframed(share, unp, prime) ==
    IF ~unp.ok THEN unp
    ELSE Ok([prime |-> IF Log2Exceeds(share, LONG_SHARE_LOG2)
                       THEN PRIME_13TH_MERSENNE ELSE prime,
             share |-> IntOf(unp.val[1]),
             min_shares |-> IntOf(unp.val[2]),
             idx |-> IntOf(unp.val[3])])

\* math.log2(0) raises ValueError
Decoded(share, prime) ==
    IF ~share.ok THEN share
    ELSE IF share.val = {} THEN Err("MathDomainError")
    ELSE Unframed(share.val, unpad_number(share.val), prime)

\* The try block for one string.
DecodeShare(ms, prime) == Decoded(mnemonic_to_number(Strip(ms)), prime)

RECURSIVE DecodeShares(_, _, _)

\* A faulty variant of AfterShare, which the invalid-share property below must
\* tell from it: a string that does not decode is left out.
AfterShare_skip(mnemonic_shares, k, acc, one) ==
    IF ~one.ok THEN DecodeShares(mnemonic_shares, k + 1, acc)
    ELSE DecodeShares(mnemonic_shares, k + 1,
             [shares |-> Append(acc.shares, <<one.val.idx, one.val.share>>),
              need_shares |-> Max(acc.need_shares, one.val.min_shares),
              prime |-> one.val.prime])

\* The loop from string k on; acc holds shares, need_shares and prime, and one
\* is what the try block made of string k.
AfterShare(mnemonic_shares, k, acc, one) ==
    IF ~one.ok THEN [ok |-> FALSE, err |-> "InvalidShare", at |-> k, cause |-> one.err]
    ELSE DecodeShares(mnemonic_shares, k + 1,
             [shares |-> Append(acc.shares, <<one.val.idx, one.val.share>>),
              need_shares |-> Max(acc.need_shares, one.val.min_shares),
              prime |-> one.val.prime])

DecodeShares(mnemonic_shares, k, acc) ==
    IF k > Len(mnemonic_shares) THEN Ok(acc)
    ELSE AfterShare(mnemonic_shares, k, acc, DecodeShare(mnemonic_shares[k], acc.prime))

\* A faulty variant of AfterLoop, which the threshold property below must tell
\* from it: as many shares as are needed are not enough.
AfterLoop_at_most(loop) ==
    IF ~loop.ok THEN [result |-> loop, prime |-> 0, calls |-> <<>>]
    ELSE IF Len(loop.val.shares) <= loop.val.need_shares
    THEN [result |-> [ok |-> FALSE, err |-> "InsufficientShares",
                      have |-> Len(loop.val.shares), need |-> loop.val.need_shares],
          prime |-> loop.val.prime, calls |-> <<"threshold">>]
    ELSE [result |-> recover_secret(loop.val.shares, loop.val.prime),
          prime |-> loop.val.prime, calls |-> <<"threshold", "recover_secret">>]

\* What follows the loop.  result is what the call returns or raises, prime the
\* prime it chose and calls the steps it went through.
AfterLoop(loop) ==
    IF ~loop.ok THEN [result |-> loop, prime |-> 0, calls |-> <<>>]
    ELSE IF Len(loop.val.shares) < loop.val.need_shares
    THEN [result |-> [ok |-> FALSE, err |-> "InsufficientShares",
                      have |-> Len(loop.val.shares), need |-> loop.val.need_shares],
          prime |-> loop.val.prime, calls |-> <<"threshold">>]
    ELSE [result |-> recover_secret(loop.val.shares, loop.val.prime),
          prime |-> loop.val.prime, calls |-> <<"threshold", "recover_secret">>]

recover_mnemonic_secret(mnemonic_shares) ==
    AfterLoop(DecodeShares(mnemonic_shares, 1,
                  [shares |-> <<>>, need_shares |-> 0, prime |-> PRIME_12TH_MERSENNE]))

(***************************************************************************)
(* State.  Each specification below drives one part of the program and     *)
(* leaves the variables of the other parts at their initial values.        *)
(***************************************************************************)
VARIABLES
    pc,         \* position of the driven call sequence
    fy, fa, fb, \* frame codec: the arguments n, a, b of pad_number
    frame,      \* frame codec: what pad_number returned
    flipped,    \* frame codec: the bit flipped in the frame, or -1
    damaged,    \* frame codec: the frame with that bit flipped
    unpadded,   \* frame codec: what unpad_number returned
    cin,        \* mnemonic codec: the input, a number or a string
    cmid,       \* mnemonic codec: the input converted
    cout,       \* mnemonic codec: the input converted and converted back
    wfile,      \* wordlist: the lines of wordlist.txt
    wedits,     \* wordlist: the number of edits made to the shipped file
    wloaded,    \* wordlist: what _load_wordlist returned
    pfile,      \* parser: the lines f.readlines() returns
    pshares,    \* parser: what read_shared_secrets_from_file returned
    sin,        \* shares: the arguments of the split and the random draws
    split,      \* shares: what make_random_mnemonic_shares returned
    picks,      \* shares: which share each supplied string is, and in what form
    supplied,   \* shares: the strings handed to recover_mnemonic_secret
    recovered   \* shares: what recover_mnemonic_secret returned

FrameVars == <<fy, fa, fb, frame, flipped, damaged, unpadded>>
CodecVars == <<cin, cmid, cout>>
WordlistVars == <<wfile, wedits, wloaded>>

ParserVars == <<pfile, pshares>>
SharesVars == <<sin, split, picks, supplied, recovered>>

vars == <<pc, FrameVars, CodecVars, WordlistVars, ParserVars, SharesVars>>

None == Err("none")

FrameIdle == /\ fy = {} /\ fa = {} /\ fb = {}
             /\ frame = None /\ flipped = -1 /\ damaged = {} /\ unpadded = None

CodecIdle == cin = None /\ cmid = None /\ cout = None

WordlistIdle == wfile = <<>> /\ wedits = 0 /\ wloaded = None

ParserIdle == pfile = <<>> /\ pshares = <<>>

SharesIdle == /\ sin = None /\ split = None
              /\ picks = <<>> /\ supplied = <<>> /\ recovered = None

(***************************************************************************)
(* SpecFrame: pad_number on a share value, a threshold and an index, then  *)
(* unpad_number on the frame, or on the frame with one bit flipped.        *)
(***************************************************************************)
MaxY == 3
MaxYShift == 2

\* Share values y >= 1: k * 2^s.
FrameValues == {Shl(BitsOf(k), s) : k \in 1..MaxY, s \in 0..MaxYShift}

\* Thresholds and indices: the ends of the byte range, and one value past it.
FieldValues == {BitsOf(k) : k \in {0, 1, 2, 255, 256}}

InitFrame == /\ pc = "start"
             /\ fy \in FrameValues
             /\ fa \in FieldValues
             /\ fb \in FieldValues
             /\ frame = None
             /\ flipped = -1
             /\ damaged = {}
             /\ unpadded = None
             /\ CodecIdle /\ WordlistIdle /\ ParserIdle /\ SharesIdle

Pad == /\ pc = "start"
       /\ frame' = pad_number(fy, fa, fb)
       /\ pc' = "padded"
       /\ UNCHANGED <<fy, fa, fb, flipped, damaged, unpadded>>
       /\ UNCHANGED <<CodecVars, WordlistVars, ParserVars, SharesVars>>

Unpad == /\ pc = "padded"
         /\ frame.ok
         /\ unpadded' = unpad_number(frame.val)
         /\ pc' = "unpadded"
         /\ UNCHANGED <<fy, fa, fb, frame, flipped, damaged>>
         /\ UNCHANGED <<CodecVars, WordlistVars, ParserVars, SharesVars>>

\* One bit of the frame changes between pad_number and unpad_number.
FlipBit == /\ pc = "padded"
           /\ frame.ok
           /\ \E i \in 0..(BitLength(frame.val) - 1) :
                /\ flipped' = i
                /\ damaged' = Xor(frame.val, {i})
           /\ pc' = "flipped"
           /\ UNCHANGED <<fy, fa, fb, frame, unpadded>>
           /\ UNCHANGED <<CodecVars, WordlistVars, ParserVars, SharesVars>>

UnpadDamaged == /\ pc = "flipped"
                /\ unpadded' = unpad_number(damaged)
                /\ pc' = "checked"
                /\ UNCHANGED <<fy, fa, fb, frame, flipped, damaged>>
                /\ UNCHANGED <<CodecVars, WordlistVars, ParserVars, SharesVars>>

NextFrame == Pad \/ Unpad \/ FlipBit \/ UnpadDamaged

SpecFrame == InitFrame /\ [][NextFrame]_vars

\* K and x are in 0..255
FieldsInByte == ~ExceedsBits(fa, 8) /\ ~ExceedsBits(fb, 8)

\* C8: for y >= 1 and K, x in 0..255, pad_number(y, K, x) returns without an
\* error (the payload fits the floor(log2) bytes the checksum takes of it) and
\* unpad_number of the frame returns exactly (y, K, x).
C8_FrameRoundTrip ==
    FieldsInByte =>
        /\ pc \in {"padded", "unpadded", "flipped", "checked"} => frame.ok
        /\ pc = "unpadded" => unpadded = Ok(<<fy, fa, fb>>)

\* The round trip of the smallest share value with the largest threshold.
C8_Witness ==
    /\ pc = "unpadded"
    /\ fy = BitsOf(1) /\ fa = BitsOf(255) /\ fb = BitsOf(2)
    /\ unpadded = Ok(<<fy, fa, fb>>)

\* The flipped bit is the most significant bit of the frame.
TopBitFlipped == flipped = BitLength(frame.val) - 1

\* C7 as stated: whichever bit of a frame is flipped, the most significant
\* one included, unpad_number raises the checksum-mismatch error.
C7_EveryBitMismatch == pc = "checked" => unpadded = Err("ChecksumMismatch")

\* C7 amended: whichever bit of a frame is flipped, unpad_number raises and
\* returns no triple; the error is the checksum mismatch for every bit but the
\* most significant one, whose flip changes the number of bytes the checksum
\* is taken of and can make that computation itself raise.
C7_FlipDetected ==
    pc = "checked" =>
        /\ ~unpadded.ok
        /\ ~TopBitFlipped => unpadded = Err("ChecksumMismatch")
        /\ unpadded.err \in {"ChecksumMismatch", "MathDomainError", "OverflowError"}

\* A payload bit below the most significant one is flipped and the checksums
\* differ.
C7_Witness ==
    /\ pc = "checked"
    /\ flipped >= 32 /\ ~TopBitFlipped
    /\ unpadded = Err("ChecksumMismatch")

(***************************************************************************)
(* SpecCodec: number_to_mnemonic then mnemonic_to_number on a number, and  *)
(* mnemonic_to_number then number_to_mnemonic on a string.                 *)
(***************************************************************************)
MaxWords == 3

DigitValues == {0, 1, 512, RADIX - 1}

\* The digit sequences of up to MaxWords base-RADIX digits.
DigitSeqs == UNION {[1..len -> DigitValues] : len \in 0..MaxWords}

\* The number with the digits d, least significant first.
NumberOfDigits(d) == UNION {Shl(BitsOf(d[k]), RADIX_BITS * (k - 1)) : k \in DOMAIN d}

\* The words of the list with the indices d, one blank between two words.
TextOfDigits(d) == Join([k \in DOMAIN d |-> <<<<"w", d[k]>>>>])

\* Strings that are not such texts: capitals and more white space, a word that
\* is not in the list, two words of the list written as one.
OtherTexts ==
    { <<Space, <<"W", 1>>, Space, Space, <<"w", 0>>, <<"w", 2>>, Newline>>,
      <<<<"W", 1>>, Space, Space, <<"w", 2>>, Newline>>,
      <<<<"w", 1>>, Space, <<"w", RADIX>>>>,
      <<<<"w", 1>>, <<"w", 2>>>>,
      <<<<"#", 0>>, Space, <<"w", 1>>>> }

CodecInputs ==
    {[kind |-> "number", number |-> NumberOfDigits(d), text |-> <<>>] : d \in DigitSeqs}
    \cup {[kind |-> "text", number |-> {}, text |-> TextOfDigits(d)] : d \in DigitSeqs}
    \cup {[kind |-> "text", number |-> {}, text |-> t] : t \in OtherTexts}

InitCodec == /\ pc = "start"
             /\ cin \in CodecInputs
             /\ cmid = None
             /\ cout = None
             /\ FrameIdle /\ WordlistIdle /\ ParserIdle /\ SharesIdle

Encode == /\ pc = "start"
          /\ cin.kind = "number"
          /\ cmid' = Ok(number_to_mnemonic(cin.number))
          /\ pc' = "encoded"
          /\ UNCHANGED <<cin, cout, FrameVars, WordlistVars, ParserVars, SharesVars>>

DecodeBack == /\ pc = "encoded"
              /\ cout' = mnemonic_to_number(cmid.val)
              /\ pc' = "done"
              /\ UNCHANGED <<cin, cmid, FrameVars, WordlistVars, ParserVars, SharesVars>>

Decode == /\ pc = "start"
          /\ cin.kind = "text"
          /\ cmid' = mnemonic_to_number(cin.text)
          /\ pc' = "decoded"
          /\ UNCHANGED <<cin, cout, FrameVars, WordlistVars, ParserVars, SharesVars>>

EncodeBack == /\ pc = "decoded"
              /\ cmid.ok
              /\ cout' = Ok(number_to_mnemonic(cmid.val))
              /\ pc' = "done"
              /\ UNCHANGED <<cin, cmid, FrameVars, WordlistVars, ParserVars, SharesVars>>

NextCodec == Encode \/ DecodeBack \/ Decode \/ EncodeBack

SpecCodec == InitCodec /\ [][NextCodec]_vars

\* The word of index 0.
ZeroWord == <<<<"w", 0>>>>

\* s has words and the last one is the word of index 0.
EndsInZeroWord(s) == Split(s) # <<>> /\ Lower(Split(s)[Len(Split(s))]) = ZeroWord

\* s is a sequence of words of the list, in lowercase with one blank between
\* two words, that does not end in the word of index 0.
IsWordSequence(s) ==
    \E d \in DigitSeqs : s = TextOfDigits(d) /\ (d = <<>> \/ d[Len(d)] # 0)

\* C9: mnemonic_to_number(number_to_mnemonic(n)) = n for every n >= 0, 0 giving
\* the empty string; number_to_mnemonic never ends in the word of index 0; and
\* number_to_mnemonic(mnemonic_to_number(s)) = s for every sequence s of words
\* of the list that does not end in the word of index 0 (however s is written,
\* the result holds the words of s in lowercase).
C9_CodecBijection ==
    /\ pc \in {"encoded", "done"} /\ cin.kind = "number" =>
            /\ ~EndsInZeroWord(cmid.val)
            /\ cin.number = {} <=> cmid.val = <<>>
    /\ pc = "done" /\ cin.kind = "number" => cout = Ok(cin.number)
    /\ pc = "done" /\ cin.kind = "text" /\ IsWordSequence(cin.text) => cout = Ok(cin.text)
    /\ pc = "done" /\ cin.kind = "text" /\ ~EndsInZeroWord(cin.text) =>
            Split(cout.val) = [k \in 1..Len(Split(cin.text)) |-> Lower(Split(cin.text)[k])]

\* Three words, the first of index 0, are decoded and encoded back.
C9_Witness ==
    /\ pc = "done"
    /\ cin.kind = "text" /\ cin.text = TextOfDigits(<<0, 512, 1>>)
    /\ cmid = Ok(NumberOfDigits(<<0, 512, 1>>))
    /\ cout = Ok(cin.text)

(***************************************************************************)
(* SpecWordlist: wordlist.txt is edited, then _load_wordlist reads it.     *)
(***************************************************************************)
MaxEdits == 2

\* The lines an edit touches: the first word's (a comment comes before it) and
\* the last one.
EditLines(file) == {2, Len(file)} \cap DOMAIN file

RemoveAt(file, k) == SubSeq(file, 1, k - 1) \o SubSeq(file, k + 1, Len(file))

InsertAt(file, k, line) == SubSeq(file, 1, k - 1) \o <<line>> \o SubSeq(file, k, Len(file))

InitWordlist == /\ pc = "editing"
                /\ wfile = WordlistTxt
                /\ wedits = 0
                /\ wloaded = None
                /\ FrameIdle /\ CodecIdle /\ ParserIdle /\ SharesIdle

\* A line is added: a comment, a new word, or a word the file already holds
\* (written with blanks after it).
AddLine == /\ pc = "editing"
           /\ wedits < MaxEdits
           /\ wedits' = wedits + 1
           /\ \E k \in EditLines(wfile) :
                \E line \in { <<<<"#", 1>>, Newline>>,
                              <<<<"w", RADIX + Len(wfile)>>, Newline>>,
                              <<<<"w", 0>>, Space, Newline>> } :
                   wfile' = InsertAt(wfile, k, line)
           /\ UNCHANGED <<pc, wloaded, FrameVars, CodecVars, ParserVars, SharesVars>>

RemoveLine == /\ pc = "editing"
              /\ wedits < MaxEdits
              /\ wedits' = wedits + 1
              /\ \E k \in EditLines(wfile) : wfile' = RemoveAt(wfile, k)
              /\ UNCHANGED <<pc, wloaded, FrameVars, CodecVars, ParserVars, SharesVars>>

\* A line is overwritten with a copy of another one.
CopyLine == /\ pc = "editing"
            /\ wedits < MaxEdits
            /\ wedits' = wedits + 1
            /\ \E k \in EditLines(wfile) : \E from \in EditLines(wfile) :
                 /\ k # from
                 /\ wfile' = [wfile EXCEPT ![k] = wfile[from]]
            /\ UNCHANGED <<pc, wloaded, FrameVars, CodecVars, ParserVars, SharesVars>>

Load == /\ pc = "editing"
        /\ wloaded' = load_wordlist(wfile)
        /\ pc' = "loaded"
        /\ UNCHANGED <<wfile, wedits, FrameVars, CodecVars, ParserVars, SharesVars>>

NextWordlist == AddLine \/ RemoveLine \/ CopyLine \/ Load

SpecWordlist == InitWordlist /\ [][NextWordlist]_vars

\* The lines of the file that are not comments, and their tokens.
NonCommentLines(file) == {k \in DOMAIN file : ~StartsWithHash(file[k])}

Tokens(file) == {Strip(file[k]) : k \in NonCommentLines(file)}

\* The non-comment lines are exactly RADIX distinct tokens.
ExactlyRadixDistinct(file) ==
    /\ Cardinality(NonCommentLines(file)) = RADIX
    /\ Cardinality(Tokens(file)) = RADIX

\* C10: loading fails whenever the non-comment lines are not exactly 1024
\* distinct tokens, also when they are 1024 and a token occurs twice.
C10_NotDistinctFails ==
    pc = "loaded" /\ ~ExactlyRadixDistinct(wfile) => ~wloaded.ok
(***************************************************************************)
(* SpecParser: read_shared_secrets_from_file on a file of up to MaxLines   *)
(* lines.                                                                  *)
(***************************************************************************)
MaxLines == 4

\* A blank line, a line of blanks, word lines (one without a line end, one
\* with a word that ends in punctuation) and an indented comment line.
ParserLines ==
    { <<Newline>>,
      <<Space, Space, Newline>>,
      <<<<"w", 1>>, Newline>>,
      <<Space, <<"w", 2>>, Space, Space, <<"W", 3>>, Newline>>,
      <<<<"w", 4>>>>,
      <<<<"w", 5>>, <<"#", 1>>, Space, <<"w", 6>>, Newline>>,
      <<Space, <<"#", 0>>, Space, <<"w", 7>>, Newline>> }

InitParser == /\ pc = "start"
              /\ pfile \in UNION {[1..len -> ParserLines] : len \in 0..MaxLines}
              /\ pshares = <<>>
              /\ FrameIdle /\ CodecIdle /\ WordlistIdle /\ SharesIdle

ReadFile == /\ pc = "start"
            /\ pshares' = read_shared_secrets_from_file(pfile)
            /\ pc' = "read"
            /\ UNCHANGED <<pfile, FrameVars, CodecVars, WordlistVars, SharesVars>>

NextParser == ReadFile

SpecParser == InitParser /\ [][NextParser]_vars

\* What a line is: empty (nothing but white space), a word line (its first
\* non-space character is a word character) or a comment line.
LineKind(line) ==
    IF \A k \in DOMAIN line : IsSpace(line[k]) THEN "empty"
    ELSE IF (CHOOSE k \in DOMAIN line :
                ~IsSpace(line[k]) /\ \A j \in 1..(k - 1) : IsSpace(line[j])) \in
            {k \in DOMAIN line : line[k][1] \in {"w", "W"}}
    THEN "word" ELSE "comment"

\* The lines but those of the kinds given.
Without(lines, kinds) == SelectSeq(lines, LAMBDA line : LineKind(line) \notin kinds)

\* The words of some lines, in order.
RECURSIVE WordsOf(_)
WordsOf(lines) ==
    IF lines = <<>> THEN <<>> ELSE Split(Head(lines)) \o WordsOf(Tail(lines))

\* The maximal runs of word lines, a run ending at a line of one of the kinds
\* in ends or at the end of the lines.
RECURSIVE Runs(_, _)
Runs(lines, ends) ==
    IF lines = <<>> THEN <<>>
    ELSE LET stops == {k \in DOMAIN lines : LineKind(lines[k]) \in ends}
             stop == IF stops = {} THEN Len(lines) + 1
                     ELSE CHOOSE k \in stops : \A j \in stops : k <= j
             run == SubSeq(lines, 1, stop - 1)
         IN (IF run = <<>> THEN <<>> ELSE <<run>>)
            \o Runs(SubSeq(lines, stop + 1, Len(lines)), ends)

\* One string for each run: its words with one blank between two words.
Grouped(runs) == [k \in DOMAIN runs |-> Join(WordsOf(runs[k]))]

\* C6: read_shared_secrets_from_file returns one string for each maximal run of
\* word lines that empty lines or the end of the lines delimit, the run's
\* words joined by single blanks; no string is empty, a last run that no empty
\* line follows is returned too, and the words of the strings are the words
\* of the word lines, in order.
C6_Grouping ==
    pc = "read" =>
        /\ pshares = Grouped(Runs(Without(pfile, {"comment"}), {"empty"}))
        /\ \A k \in DOMAIN pshares : pshares[k] # <<>>
        /\ WordsOf(pshares) = WordsOf(Without(pfile, {"comment", "empty"}))

\* Empty lines come first and twice in a row, and no empty line follows the
\* last run: two strings.
C6_Witness ==
    /\ pc = "read"
    /\ pfile = << <<Newline>>, <<<<"w", 1>>, Newline>>,
                  <<Space, Space, Newline>>, <<<<"w", 4>>>> >>
    /\ pshares = << <<<<"w", 1>>>>, <<<<"w", 4>>>> >>

\* C5 as stated: a comment line is discarded and ends the share in progress,
\* so that words before it and words after it are never in the same string.
C5_CommentEndsShare ==
    pc = "read" => pshares = Grouped(Runs(pfile, {"comment", "empty"}))

\* C5 amended: a comment line is discarded and does not end the share in
\* progress: the strings returned are those returned for the lines without
\* the comment lines, so that words before a comment line and words after it
\* are in the same string unless an empty line lies between them.
C5_CommentIgnored ==
    pc = "read" =>
        /\ pshares = read_shared_secrets_from_file(Without(pfile, {"comment"}))
        /\ \A k \in 2..(Len(pfile) - 1) :
               /\ LineKind(pfile[k]) = "comment"
               /\ LineKind(pfile[k - 1]) = "word"
               /\ LineKind(pfile[k + 1]) = "word"
               => \E j \in DOMAIN pshares :
                     \E i \in 1..(Len(Split(pshares[j])) - 1) :
                        /\ Split(pshares[j])[i] = WordsOf(<<pfile[k - 1]>>)[Len(WordsOf(<<pfile[k - 1]>>))]
                        /\ Split(pshares[j])[i + 1] = WordsOf(<<pfile[k + 1]>>)[1]

\* A comment line between two word lines: one string with the words of both.
C5_Witness ==
    /\ pc = "read"
    /\ pfile = << <<<<"w", 1>>, Newline>>,
                  <<Space, <<"#", 0>>, Space, <<"w", 7>>, Newline>>,
                  <<<<"w", 4>>>> >>
    /\ pshares = << <<<<"w", 1>>, Space, <<"w", 4>>>> >>

(***************************************************************************)
(* SpecShares: the generate command splits a secret, some of the printed   *)
(* shares are supplied, in any order and possibly more than once, and      *)
(* recover_mnemonic_secret is called on them.                              *)
(* SpecTyped: the same with strings typed by hand, well or badly.          *)
(***************************************************************************)
MaxShares == 3
MaxSupplied == 3

\* What the random source returns: for the secret, and for a coefficient.
RandomValues(prime) == {0, 1, prime \div 2, prime - 1}

RandomCoefficients(prime) == {0, prime - 1}

SplitInputs ==
    {[minimum |-> k, shares |-> n, long |-> l, rnd |-> r] :
        k \in 1..MaxShares, n \in 1..MaxShares, l \in BOOLEAN,
        r \in UNION {[1..len -> RandomValues(PRIME_12TH_MERSENNE)
                                   \cup RandomValues(PRIME_13TH_MERSENNE)] :
                         len \in 1..MaxShares}}

\* prime=PRIME_13TH_MERSENNE if long else PRIME_12TH_MERSENNE
PrimeOf(long) == IF long THEN PRIME_13TH_MERSENNE ELSE PRIME_12TH_MERSENNE

InitShares == /\ pc = "start"
              /\ sin = None /\ split = None
              /\ picks = <<>> /\ supplied = <<>> /\ recovered = None
              /\ FrameIdle /\ CodecIdle /\ WordlistIdle /\ ParserIdle

GenerateFrom(inputs) ==
    /\ pc = "start"
    /\ \E in \in inputs :
         /\ Len(in.rnd) = in.minimum
         /\ in.rnd[1] \in RandomValues(PrimeOf(in.long))
         /\ \A k \in 2..Len(in.rnd) : in.rnd[k] \in RandomCoefficients(PrimeOf(in.long))
         /\ sin' = in
         /\ split' = make_random_mnemonic_shares(in.minimum, in.shares,
                                                 PrimeOf(in.long), in.rnd)
    /\ pc' = "generated"
    /\ UNCHANGED <<picks, supplied, recovered>>
    /\ UNCHANGED <<FrameVars, CodecVars, WordlistVars, ParserVars>>

Generate == GenerateFrom(SplitInputs)

\* The string as a person types it: capitals, and more white space.
Retyped(ms) ==
    <<Space>> \o [k \in 1..Len(ms) |->
                    IF k = 1 /\ ms[k][1] = "w" THEN <<"W", ms[k][2]>> ELSE ms[k]]
    \o <<Space, Newline>>

\* The string with its last word replaced by its neighbour in the wordlist.
WrongWord(ms) ==
    [ms EXCEPT ![Len(ms)] = <<"w", IF @[2] = RADIX - 1 THEN @[2] - 1 ELSE @[2] + 1>>]

\* The string with a word that is not in the wordlist put first.
UnknownWord(ms) == <<<<"w", RADIX>>, Space>> \o ms

CanSupply == pc = "generated" /\ split.ok /\ Len(supplied) < MaxSupplied

SupplyString(form, j, ms) ==
    /\ supplied' = Append(supplied, ms)
    /\ picks' = Append(picks, [share |-> j, form |-> form])
    /\ UNCHANGED <<pc, sin, split, recovered>>
    /\ UNCHANGED <<FrameVars, CodecVars, WordlistVars, ParserVars>>

Supply == /\ CanSupply
          /\ \E j \in DOMAIN split.val.mnemonic_shares :
                SupplyString("printed", j, split.val.mnemonic_shares[j])

SupplyRetyped ==
    /\ CanSupply
    /\ SupplyString("retyped", 1, Retyped(split.val.mnemonic_shares[1]))

SupplyWrongWord ==
    /\ CanSupply
    /\ SupplyString("wrong word", 1, WrongWord(split.val.mnemonic_shares[1]))

SupplyUnknownWord ==
    /\ CanSupply
    /\ SupplyString("unknown word", 1, UnknownWord(split.val.mnemonic_shares[1]))

SupplyEmpty ==
    /\ CanSupply
    /\ \E ms \in {<<>>, <<Space, Newline>>} : SupplyString("empty", 0, ms)

Recover == /\ pc = "generated"
           /\ split.ok
           /\ recovered' = recover_mnemonic_secret(supplied)
           /\ pc' = "recovered"
           /\ UNCHANGED <<sin, split, picks, supplied>>
           /\ UNCHANGED <<FrameVars, CodecVars, WordlistVars, ParserVars>>

NextShares == Generate \/ Supply \/ Recover

SpecShares == InitShares /\ [][NextShares]_vars

\* The share indices x among the supplied strings.
PickedIndices == {picks[k].share : k \in DOMAIN picks}

\* The supplied strings are a subset of the printed shares, in some order.
PickedSubset ==
    /\ \A k \in DOMAIN picks : picks[k].form = "printed"
    /\ Cardinality(PickedIndices) = Len(picks)

\* C1: for either prime, recover_mnemonic_secret of any subset of at least K of
\* the shares of a split, in any order, returns the secret of the split, and
\* number_to_mnemonic of it is the mnemonic secret the split returned.
C1_RoundTrip ==
    pc = "recovered" /\ PickedSubset /\ Len(picks) >= sin.minimum =>
        /\ recovered.result = Ok(sin.rnd[1])
        /\ number_to_mnemonic(BitsOf(recovered.result.val)) = split.val.mnemonic_secret

\* C2: for a non-empty list of shares of one split, recover_mnemonic_secret
\* interpolates over the prime of the split: the long one if the split was
\* made with the long flag, the short one otherwise.
C2_PrimeAgrees ==
    pc = "recovered" /\ picks # <<>> /\ (\A k \in DOMAIN picks : picks[k].form = "printed")
        => recovered.prime = PrimeOf(sin.long)

\* The largest threshold the supplied shares carry.
NeedOf == IF picks = <<>> THEN 0 ELSE sin.minimum

\* C3 as stated: a list of valid shares with fewer than K distinct share
\* indices fails with the InsufficientShares error, also when it holds K
\* strings or more because an index occurs more than once.
C3_DistinctThreshold ==
    pc = "recovered" /\ Cardinality(PickedIndices) < NeedOf =>
        ~recovered.result.ok /\ recovered.result.err = "InsufficientShares"

\* C3 amended: a list of valid shares with fewer than K strings, a repeated
\* one counted each time, fails with the InsufficientShares error, have being
\* the number of strings and need K, and recover_secret is not called; a list
\* of K strings or more passes the threshold check and is handed to
\* recover_secret, also when a share index occurs more than once.
C3_CountThreshold ==
    pc = "recovered" =>
        /\ Len(supplied) < NeedOf =>
              /\ recovered.result = [ok |-> FALSE, err |-> "InsufficientShares",
                                      have |-> Len(supplied), need |-> NeedOf]
              /\ recovered.calls = <<"threshold">>
        /\ Len(supplied) >= NeedOf =>
              /\ recovered.calls = <<"threshold", "recover_secret">>
              /\ recovered.result.ok \/ recovered.result.err # "InsufficientShares"

\* Two of the three shares of a split with threshold 3 are supplied.
C3_Witness ==
    /\ pc = "recovered"
    /\ sin.minimum = 3 /\ PickedIndices = {1, 3}
    /\ recovered.result = [ok |-> FALSE, err |-> "InsufficientShares",
                            have |-> 2, need |-> 3]

\* Splits of two shares, both needed, of a secret next to a multiple of the
\* short prime.
TypedInputs ==
    {in \in SplitInputs :
        in.minimum = 2 /\ in.shares = 2 /\ in.rnd[1] \in {1, PRIME_12TH_MERSENNE - 1}}

GenerateTwo == GenerateFrom(TypedInputs)

NextTyped == \/ GenerateTwo \/ Supply \/ SupplyRetyped \/ SupplyWrongWord
             \/ SupplyUnknownWord \/ SupplyEmpty \/ Recover

SpecTyped == InitShares /\ [][NextTyped]_vars

\* The word is one of the list, in whatever case: wordlist.txt holds the
\* words <<"w", i>> for i below RADIX.
InWordlist(word) ==
    Len(word) = 1 /\ word[1][1] \in {"w", "W"} /\ word[1][2] \in 0..(RADIX - 1)

\* The checksum field of the frame F is not the checksum of the rest of it.
CrcFieldWrong(F) ==
    LET sum == checksum(Shr(F, 32)) IN ~sum.ok \/ sum.val # LowBits(F, 32)

\* The string holds a word that is not in the list, or is empty, or decodes
\* to an integer whose checksum field does not match.
InvalidString(ms) ==
    LET words == Split(ms) IN
    \/ \E k \in DOMAIN words : ~InWordlist(words[k])
    \/ words = <<>>
    \/ CrcFieldWrong(mnemonic_to_number(ms).val)

InvalidAt == {k \in DOMAIN supplied : InvalidString(supplied[k])}

\* C4: when a string of the list holds a word outside the wordlist, is empty
\* or decodes to an integer whose checksum field does not match,
\* recover_mnemonic_secret fails with the InvalidShare error for the first
\* such string and calls neither the threshold check nor recover_secret,
\* however many valid shares the list holds; a string with a word replaced,
\* a word added or nothing in it is such a string.
C4_InvalidShareFirst ==
    pc = "recovered" =>
        /\ InvalidAt = {k \in DOMAIN picks : picks[k].form \notin {"printed", "retyped"}}
        /\ InvalidAt # {} =>
              /\ ~recovered.result.ok
              /\ recovered.result.err = "InvalidShare"
              /\ recovered.result.at = CHOOSE k \in InvalidAt : \A j \in InvalidAt : k <= j
              /\ recovered.calls = <<>>
        /\ InvalidAt = {} => recovered.calls # <<>>

\* A share with its last word replaced is supplied between two valid ones.
C4_Witness ==
    /\ pc = "recovered"
    /\ Len(picks) = 3
    /\ picks[1].form = "retyped" /\ picks[2].form = "wrong word"
    /\ picks[3] = [share |-> 2, form |-> "printed"]
    /\ recovered.result = [ok |-> FALSE, err |-> "InvalidShare", at |-> 2,
                            cause |-> "ChecksumMismatch"]
====
